---- MODULE Spec2Model ----
(***************************************************************************)
(* The per-account transaction state machine of payments-core              *)
(* (account/account.rs): one Account, driven by process(tx) calls.         *)
(*                                                                         *)
(* Amount is f64.  TLC has no IEEE doubles, so an Amount is modelled as a  *)
(* binary floating-point number with the same rounding rule (round to      *)
(* nearest, ties to even) and a narrower significand: MantBits bits        *)
(* instead of 53.  All amounts are whole numbers of one unit, so the only  *)
(* rounding that can happen is the loss of low bits above 2^MantBits,      *)
(* exactly as above 2^53 in the program.                                   *)
(***************************************************************************)
EXTENDS Integers, FiniteSets, Sequences, TLC

\* ---------------------------------------------------------------- bounds
\* Width of the significand of the modelled Amount (53 in an f64).
MantBits == 2
\* Transaction ids are 1..MaxTx (Tx = u32 in the program).
MaxTx == 2
\* Client ids are 1..MaxClient (ClientId = u16 in the program).
MaxClient == 2
\* Number of process calls made on the account in one behaviour.
MaxCalls == 5
MaxRows == 3

RECURSIVE Pow2(_)
Pow2(n) == IF n = 0 THEN 1 ELSE 2 * Pow2(n - 1)

Txs == 1..MaxTx
ClientIds == 1..MaxClient
\* The client the account under study is created for.
OwnClient == CHOOSE c \in ClientIds : TRUE
\* Amounts carried by the Deposits and Withdrawals offered to the account:
\* one unit, and the first value whose successor is not representable.
Amounts == {1, Pow2(MantBits)}
\* Amounts carried by Dispute, Resolve and Chargeback (the program ignores
\* them; 0.0 is what the repository's sample input and tests pass).
IgnoredAmounts == {0}

\* ------------------------------------------------------- f64 arithmetic
Abs(x) == IF x < 0 THEN -x ELSE x

\* The spacing of representable values around a magnitude m.
RECURSIVE UlpFrom(_, _)
UlpFrom(m, u) == IF m < Pow2(MantBits) * u THEN u ELSE UlpFrom(m, 2 * u)
Ulp(m) == UlpFrom(m, 1)

\* Round to nearest representable value, ties to the even significand.
RoundF(x) ==
  LET m == Abs(x)
      u == Ulp(m)
      q == m \div u
      r == m % u
      n == IF 2 * r < u THEN q
           ELSE IF 2 * r > u THEN q + 1
           ELSE IF q % 2 = 0 THEN q ELSE q + 1
  IN  IF x < 0 THEN -(n * u) ELSE n * u

\* f64 `+=` and `-=`.
FAdd(a, b) == RoundF(a + b)
FSub(a, b) == RoundF(a - b)

\* ---------------------------------------------------------- Transaction
Deposit(c, t, a)    == [kind |-> "Deposit",    client |-> c, tx |-> t, amount |-> a]
Withdrawal(c, t, a) == [kind |-> "Withdrawal", client |-> c, tx |-> t, amount |-> a]
Dispute(c, t, a)    == [kind |-> "Dispute",    client |-> c, tx |-> t, amount |-> a]
Resolve(c, t, a)    == [kind |-> "Resolve",    client |-> c, tx |-> t, amount |-> a]
Chargeback(c, t, a) == [kind |-> "Chargeback", client |-> c, tx |-> t, amount |-> a]

Deposits    == {Deposit(c, t, a) : c \in ClientIds, t \in Txs, a \in Amounts}
Withdrawals == {Withdrawal(c, t, a) : c \in ClientIds, t \in Txs, a \in Amounts}
Disputes    == {Dispute(c, t, a) : c \in ClientIds, t \in Txs, a \in IgnoredAmounts}
Resolves    == {Resolve(c, t, a) : c \in ClientIds, t \in Txs, a \in IgnoredAmounts}
Chargebacks == {Chargeback(c, t, a) : c \in ClientIds, t \in Txs, a \in IgnoredAmounts}
Transaction == Deposits \cup Withdrawals \cup Disputes \cup Resolves \cup Chargebacks

\* ------------------------------------------------- results of process()
\* Ok(()) and the Err(anyhow!(..)) values of account.rs.  The program tells
\* its failures apart by message only; each message is filed under the name
\* the specification gives to that failure.
Ok == "Ok"
\* "Transaction failed because account is frozen!"
AccountFrozen == "AccountFrozen"
\* "Transaction failed! not matching the account's client id."
ClientMismatch == "ClientMismatch"
\* "withdrawal failed, insuficcient funds.", "dispute failed, insuficcient funds."
InsufficientFunds == "InsufficientFunds"
\* "resolving dispute failed, insuficcient held funds.",
\* "chargeback failed, insuficcient held funds."
InsufficientHeldFunds == "InsufficientHeldFunds"
\* "chargeback failed, insuficcient total funds."
InsufficientTotalFunds == "InsufficientTotalFunds"
\* "dispute failed, not a valid transaction id.",
\* "ignoring resolution, not a valid transaction id.",
\* "ignoring chargeback, not a valid transaction id."
UnknownTransaction == "UnknownTransaction"
\* "dispute failed, transaction referenced not valid."
InvalidReference == "InvalidReference"

\* ----------------------------------------------------- HashMap<Tx, _>
EmptyMap == [t \in {} |-> Deposit(0, 0, 0)]
contains_key(m, k) == k \in DOMAIN m
insert(m, k, v) == [t \in DOMAIN m \cup {k} |-> IF t = k THEN v ELSE m[t]]
remove(m, k) == [t \in DOMAIN m \ {k} |-> m[t]]

\* -------------------------------------------------------------- Account
\* The fields of the Account; `last`: the latest process call and the Result
\* it returned; `calls`: the number of process calls made so far.
VARIABLES client_id, available, held, total, frozen, records, disputed, last,
          calls

\* The program (main): `input`: the records the csv reader yields for the
\* input file, each the Result of deserializing one row; `transactions`: the
\* Vec that load_csv_transactions returned; `ledger`: the Ledger; `pc`:
\* where main is; `log`: the process calls the loop has made so far, each
\* with the client id of the Account called and the Result returned (the
\* loop is at transactions[Len(log) + 1]).
VARIABLES input, transactions, ledger, pc, log

mvars == <<input, transactions, ledger, pc, log>>

acct == <<client_id, available, held, total, frozen, records, disputed>>
\* `used`: the transaction ids of the Deposits and Withdrawals passed to
\* process so far, kept where the caller is taken to issue each id once
\* (SpecUniqueIds).
VARIABLE used

vars == <<client_id, available, held, total, frozen, records, disputed, last,
          calls, used>>

\* The account as one value.
Self == [client_id |-> client_id, available |-> available, held |-> held,
         total |-> total, frozen |-> frozen, records |-> records,
         disputed |-> disputed]

new(c) == [client_id |-> c, available |-> 0, held |-> 0, total |-> 0,
           frozen |-> FALSE, records |-> EmptyMap, disputed |-> EmptyMap]

\* A handler's outcome: the account it leaves and the Result it returns.
Done(self, r) == [self |-> self, res |-> r]

\* Variant of verify_transaction_valid: the client id is not compared.
verify_ignores_client(self, c) ==
  IF self.frozen THEN AccountFrozen ELSE Ok

\* Variant of verify_transaction_valid: the client id is compared before
\* the frozen flag is looked at.
verify_client_before_frozen(self, c) ==
  IF c # self.client_id THEN ClientMismatch
  ELSE IF self.frozen THEN AccountFrozen
  ELSE Ok

verify_transaction_valid(self, c) ==
  IF self.frozen THEN AccountFrozen
  ELSE IF c # self.client_id THEN ClientMismatch
  ELSE Ok

\* Variant of deposit: the amount is credited to available only.
deposit_forgets_total(self, tx, amount) ==
  Done([self EXCEPT !.available = FAdd(@, amount)], Ok)

deposit(self, tx, amount) ==
  Done([self EXCEPT !.available = FAdd(@, amount), !.total = FAdd(@, amount)], Ok)

withdrawal(self, tx, amount) ==
  IF self.available < amount THEN Done(self, InsufficientFunds)
  ELSE IF self.total < amount THEN Done(self, InsufficientFunds)
  ELSE Done([self EXCEPT !.available = FSub(@, amount), !.total = FSub(@, amount)], Ok)

\* Variant of dispute: a disputed Deposit needs more than its amount
\* available.
dispute_needs_more_than_amount(self, tx) ==
  IF ~contains_key(self.records, tx) THEN Done(self, UnknownTransaction)
  ELSE
    LET disputed_transaction == self.records[tx]
        amount == disputed_transaction.amount
        moved(s) == [s EXCEPT !.disputed = insert(@, tx, disputed_transaction),
                              !.records = remove(@, tx)]
    IN  CASE disputed_transaction.kind = "Deposit" ->
               IF self.available <= amount THEN Done(self, InsufficientFunds)
               ELSE Done(moved([self EXCEPT !.available = FSub(@, amount),
                                            !.held = FAdd(@, amount)]), Ok)
          [] disputed_transaction.kind = "Withdrawal" ->
               Done(moved([self EXCEPT !.held = FAdd(@, amount),
                                       !.total = FAdd(@, amount)]), Ok)
          [] OTHER -> Done(self, InvalidReference)

\* Variant of dispute: a disputed Withdrawal is held like a disputed Deposit.
dispute_withdrawal_as_deposit(self, tx) ==
  IF ~contains_key(self.records, tx) THEN Done(self, UnknownTransaction)
  ELSE
    LET disputed_transaction == self.records[tx]
        amount == disputed_transaction.amount
        moved(s) == [s EXCEPT !.disputed = insert(@, tx, disputed_transaction),
                              !.records = remove(@, tx)]
    IN  IF disputed_transaction.kind \in {"Deposit", "Withdrawal"}
        THEN IF self.available < amount THEN Done(self, InsufficientFunds)
             ELSE Done(moved([self EXCEPT !.available = FSub(@, amount),
                                          !.held = FAdd(@, amount)]), Ok)
        ELSE Done(self, InvalidReference)

\* Variant of dispute: the amount of a disputed Deposit is put on hold
\* before the available balance is checked.
dispute_holds_before_check(self, tx) ==
  IF ~contains_key(self.records, tx) THEN Done(self, UnknownTransaction)
  ELSE
    LET disputed_transaction == self.records[tx]
        amount == disputed_transaction.amount
        moved(s) == [s EXCEPT !.disputed = insert(@, tx, disputed_transaction),
                              !.records = remove(@, tx)]
    IN  CASE disputed_transaction.kind = "Deposit" ->
               IF self.available < amount
               THEN Done([self EXCEPT !.held = FAdd(@, amount)], InsufficientFunds)
               ELSE Done(moved([self EXCEPT !.available = FSub(@, amount),
                                            !.held = FAdd(@, amount)]), Ok)
          [] disputed_transaction.kind = "Withdrawal" ->
               Done(moved([self EXCEPT !.held = FAdd(@, amount),
                                       !.total = FAdd(@, amount)]), Ok)
          [] OTHER -> Done(self, InvalidReference)

\* Variant of dispute: the disputed transaction is copied into `disputed`
\* but not removed from `records`.
dispute_keeps_record(self, tx) ==
  IF ~contains_key(self.records, tx) THEN Done(self, UnknownTransaction)
  ELSE
    LET disputed_transaction == self.records[tx]
        amount == disputed_transaction.amount
        moved(s) == [s EXCEPT !.disputed = insert(@, tx, disputed_transaction)]
    IN  CASE disputed_transaction.kind = "Deposit" ->
               IF self.available < amount THEN Done(self, InsufficientFunds)
               ELSE Done(moved([self EXCEPT !.available = FSub(@, amount),
                                            !.held = FAdd(@, amount)]), Ok)
          [] disputed_transaction.kind = "Withdrawal" ->
               Done(moved([self EXCEPT !.held = FAdd(@, amount),
                                       !.total = FAdd(@, amount)]), Ok)
          [] OTHER -> Done(self, InvalidReference)

dispute(self, tx) ==
  IF ~contains_key(self.records, tx) THEN Done(self, UnknownTransaction)
  ELSE
    LET disputed_transaction == self.records[tx]
        amount == disputed_transaction.amount
        moved(s) == [s EXCEPT !.disputed = insert(@, tx, disputed_transaction),
                              !.records = remove(@, tx)]
    IN  CASE disputed_transaction.kind = "Deposit" ->
               IF self.available < amount THEN Done(self, InsufficientFunds)
               ELSE Done(moved([self EXCEPT !.available = FSub(@, amount),
                                            !.held = FAdd(@, amount)]), Ok)
          [] disputed_transaction.kind = "Withdrawal" ->
               Done(moved([self EXCEPT !.held = FAdd(@, amount),
                                       !.total = FAdd(@, amount)]), Ok)
          [] OTHER -> Done(self, InvalidReference)

\* Variant of resolve: a disputed Withdrawal is released like a disputed
\* Deposit.
resolve_withdrawal_as_deposit(self, tx) ==
  IF ~contains_key(self.disputed, tx) THEN Done(self, UnknownTransaction)
  ELSE
    LET disputed_transaction == self.disputed[tx]
        amount == disputed_transaction.amount
        removed(s) == [s EXCEPT !.disputed = remove(@, tx)]
    IN  IF disputed_transaction.kind \in {"Deposit", "Withdrawal"}
        THEN IF self.held < amount THEN Done(self, InsufficientHeldFunds)
             ELSE Done(removed([self EXCEPT !.held = FSub(@, amount),
                                            !.available = FAdd(@, amount)]), Ok)
        ELSE Done(removed(self), Ok)

resolve(self, tx) ==
  IF ~contains_key(self.disputed, tx) THEN Done(self, UnknownTransaction)
  ELSE
    LET disputed_transaction == self.disputed[tx]
        amount == disputed_transaction.amount
        removed(s) == [s EXCEPT !.disputed = remove(@, tx)]
    IN  CASE disputed_transaction.kind = "Deposit" ->
               IF self.held < amount THEN Done(self, InsufficientHeldFunds)
               ELSE Done(removed([self EXCEPT !.held = FSub(@, amount),
                                              !.available = FAdd(@, amount)]), Ok)
          [] disputed_transaction.kind = "Withdrawal" ->
               IF self.held < amount THEN Done(self, InsufficientHeldFunds)
               ELSE Done(removed([self EXCEPT !.held = FSub(@, amount),
                                              !.total = FSub(@, amount)]), Ok)
          [] OTHER -> Done(removed(self), Ok)

\* Variant of chargeback: the account is not frozen.
chargeback_keeps_open(self, tx) ==
  IF ~contains_key(self.disputed, tx) THEN Done(self, UnknownTransaction)
  ELSE
    LET disputed_transaction == self.disputed[tx]
        amount == disputed_transaction.amount
        removed(s) == [s EXCEPT !.disputed = remove(@, tx)]
    IN  IF disputed_transaction.kind \in {"Deposit", "Withdrawal"}
        THEN IF self.held < amount THEN Done(self, InsufficientHeldFunds)
             ELSE IF self.total < amount THEN Done(self, InsufficientTotalFunds)
             ELSE Done(removed([self EXCEPT !.held = FSub(@, amount),
                                            !.total = FSub(@, amount)]), Ok)
        ELSE Done(removed(self), Ok)

chargeback(self, tx) ==
  IF ~contains_key(self.disputed, tx) THEN Done(self, UnknownTransaction)
  ELSE
    LET disputed_transaction == self.disputed[tx]
        amount == disputed_transaction.amount
        removed(s) == [s EXCEPT !.disputed = remove(@, tx)]
    IN  IF disputed_transaction.kind \in {"Deposit", "Withdrawal"}
        THEN IF self.held < amount THEN Done(self, InsufficientHeldFunds)
             ELSE IF self.total < amount THEN Done(self, InsufficientTotalFunds)
             ELSE Done(removed([self EXCEPT !.held = FSub(@, amount),
                                            !.total = FSub(@, amount),
                                            !.frozen = TRUE]), Ok)
        ELSE Done(removed(self), Ok)

\* The second match of process: the handler of the transaction's variant.
dispatch(self, tx) ==
  CASE tx.kind = "Deposit"    -> deposit(self, tx.tx, tx.amount)
    [] tx.kind = "Withdrawal" -> withdrawal(self, tx.tx, tx.amount)
    [] tx.kind = "Dispute"    -> dispute(self, tx.tx)
    [] tx.kind = "Resolve"    -> resolve(self, tx.tx)
    [] tx.kind = "Chargeback" -> chargeback(self, tx.tx)

\* Variant of process: every transaction that succeeds is recorded.
process_records_every_variant(self, tx) ==
  LET v == verify_transaction_valid(self, tx.client)
  IN  IF v # Ok THEN Done(self, v)
      ELSE LET d == dispatch(self, tx)
           IN  IF d.res # Ok THEN d
               ELSE Done([d.self EXCEPT !.records = insert(@, tx.tx, tx)], Ok)

process(self, tx) ==
  LET v == verify_transaction_valid(self, tx.client)
  IN  IF v # Ok THEN Done(self, v)
      ELSE LET d == dispatch(self, tx)
           IN  IF d.res # Ok THEN d
               ELSE IF tx.kind \in {"Deposit", "Withdrawal"}
                    THEN Done([d.self EXCEPT !.records = insert(@, tx.tx, tx)], Ok)
                    ELSE d

\* --------------------------------------------------------------- reader
\* A TransactionType record as deserialized from one row.
TransactionType(type, c, t, a) ==
  [type |-> type, client |-> c, tx |-> t, amount |-> a]

\* A row that does not deserialize into a TransactionType.
Malformed == [type |-> "", client |-> 0, tx |-> 0, amount |-> 0, error |-> TRUE]

TypeStrings == {"deposit", "withdrawal", "dispute", "resolve", "chargeback"}
OtherTypeStrings == {"transfer"}

\* The records an input file can yield.
CsvRecords ==
  {TransactionType(type, c, t, a) :
     type \in {"deposit", "withdrawal"}, c \in ClientIds, t \in Txs, a \in Amounts}
  \cup
  {TransactionType(type, c, t, a) :
     type \in {"dispute", "resolve", "chargeback"} \cup OtherTypeStrings,
     c \in ClientIds, t \in Txs, a \in IgnoredAmounts}
  \cup {Malformed}

RECURSIVE SeqsUpTo(_, _)
SeqsUpTo(S, n) ==
  IF n = 0 THEN {<<>>}
  ELSE LET shorter == SeqsUpTo(S, n - 1)
       IN  shorter \cup {Append(q, x) : q \in {r \in shorter : Len(r) = n - 1}, x \in S}

\* The input files of at most n rows.
Inputs(n) == SeqsUpTo(CsvRecords, n)

\* The Result of load_csv_transactions.
LoadOk(res) == [ok |-> TRUE, txs |-> res, err |-> "None"]
LoadErr(e) == [ok |-> FALSE, txs |-> <<>>, err |-> e]

\* The match on the type string, for a string it knows.
variant(record) ==
  CASE record.type = "deposit" ->
         Deposit(record.client, record.tx, record.amount)
    [] record.type = "withdrawal" ->
         Withdrawal(record.client, record.tx, record.amount)
    [] record.type = "dispute" ->
         Dispute(record.client, record.tx, record.amount)
    [] record.type = "resolve" ->
         Resolve(record.client, record.tx, record.amount)
    [] record.type = "chargeback" ->
         Chargeback(record.client, record.tx, record.amount)

\* Variant of load_rows: a record with an unknown type string is skipped.
RECURSIVE load_rows_skips_unknown(_, _)
load_rows_skips_unknown(rows, res) ==
  IF rows = <<>> THEN LoadOk(res)
  ELSE LET result == Head(rows)
       IN  IF result = Malformed THEN LoadErr("Deserialize")
           ELSE IF result.type \notin TypeStrings
                THEN load_rows_skips_unknown(Tail(rows), res)
                ELSE load_rows_skips_unknown(Tail(rows), Append(res, variant(result)))

\* The loop of load_csv_transactions over the rows left, `res` being the
\* transactions pushed so far.
RECURSIVE load_rows(_, _)
load_rows(rows, res) ==
  IF rows = <<>> THEN LoadOk(res)
  ELSE LET result == Head(rows)
       IN  IF result = Malformed THEN LoadErr("Deserialize")
           ELSE IF result.type \notin TypeStrings
                THEN LoadErr("Not a valid transaction type")
                ELSE load_rows(Tail(rows), Append(res, variant(result)))

load_csv_transactions(rows) == load_rows(rows, <<>>)

\* ----------------------------------------------------------------- main
Ledger_new == [c \in {} |-> new(0)]

\* Variant of main_loop_body: the account is looked up under the
\* transaction id.
main_loop_body_keyed_by_tx(l, tx) ==
  LET key == tx.tx
      l1 == IF contains_key(l, key) THEN l ELSE insert(l, key, new(key))
      out == process(l1[key], tx)
  IN  [ledger |-> [l1 EXCEPT ![key] = out.self],
       account |-> l1[key].client_id, res |-> out.res]

\* One turn of main's loop on ledger l: get or create the account of the
\* transaction's client id and call its process; the Result is dropped.
main_loop_body(l, tx) ==
  LET key == tx.client
      l1 == IF contains_key(l, key) THEN l ELSE insert(l, key, new(key))
      out == process(l1[key], tx)
  IN  [ledger |-> [l1 EXCEPT ![key] = out.self],
       account |-> l1[key].client_id, res |-> out.res]

\* ------------------------------------------------------------- behaviour
NoCall == [tx |-> [kind |-> "None", client |-> 0, tx |-> 0, amount |-> 0],
           res |-> "None"]

Init ==
  /\ \E c \in {OwnClient} :
       /\ client_id = new(c).client_id
       /\ available = new(c).available
       /\ held = new(c).held
       /\ total = new(c).total
       /\ frozen = new(c).frozen
       /\ records = new(c).records
       /\ disputed = new(c).disputed
  /\ last = NoCall
  /\ calls = 0
  /\ used = {}
  /\ input = <<>>
  /\ transactions = <<>>
  /\ ledger = Ledger_new
  /\ pc = "load"
  /\ log = <<>>

\* One call account.process(tx); `last` observes the call and its Result.
Call(tx) ==
  \E out \in {process(Self, tx)} :
      /\ calls < MaxCalls
      /\ client_id' = out.self.client_id
      /\ available' = out.self.available
      /\ held' = out.self.held
      /\ total' = out.self.total
      /\ frozen' = out.self.frozen
      /\ records' = out.self.records
      /\ disputed' = out.self.disputed
      /\ last' = [tx |-> tx, res |-> out.res]
      /\ calls' = calls + 1
      /\ UNCHANGED used
      /\ UNCHANGED mvars

ProcessDeposit    == \E tx \in Deposits : Call(tx)
ProcessWithdrawal == \E tx \in Withdrawals : Call(tx)
ProcessDispute    == \E tx \in Disputes : Call(tx)
ProcessResolve    == \E tx \in Resolves : Call(tx)
ProcessChargeback == \E tx \in Chargebacks : Call(tx)

Next ==
  \/ ProcessDeposit
  \/ ProcessWithdrawal
  \/ ProcessDispute
  \/ ProcessResolve
  \/ ProcessChargeback

Spec == Init /\ [][Next]_vars

\* The program: main loads the input file, runs every transaction through
\* the ledger and prints the ledger.
InitMain ==
  /\ input \in Inputs(MaxRows)
  /\ transactions = <<>>
  /\ ledger = Ledger_new
  /\ pc = "load"
  /\ log = <<>>
  /\ client_id = OwnClient
  /\ available = 0
  /\ held = 0
  /\ total = 0
  /\ frozen = FALSE
  /\ records = EmptyMap
  /\ disputed = EmptyMap
  /\ last = NoCall
  /\ calls = 0
  /\ used = {}

\* load_csv_transactions(input_file).expect(..): an Err panics.
Load ==
  /\ pc = "load"
  /\ \E r \in {load_csv_transactions(input)} :
       /\ transactions' = r.txs
       /\ pc' = IF r.ok THEN "loop" ELSE "panic"
  /\ UNCHANGED <<input, ledger, log>>
  /\ UNCHANGED vars

\* Variant of MainLoop: the loop is left at the first failing process call.
MainLoop_stops_on_error ==
  /\ pc = "loop"
  /\ Len(log) < Len(transactions)
  /\ LET tx == transactions[Len(log) + 1]
     IN  \E out \in {main_loop_body(ledger, tx)} :
           /\ ledger' = out.ledger
           /\ log' = Append(log, [tx |-> tx, account |-> out.account, res |-> out.res])
           /\ pc' = IF out.res = Ok THEN "loop" ELSE "done"
  /\ UNCHANGED <<input, transactions>>
  /\ UNCHANGED vars

\* One turn of `for tx in transactions`.
MainLoop ==
  /\ pc = "loop"
  /\ Len(log) < Len(transactions)
  /\ LET tx == transactions[Len(log) + 1]
     IN  \E out \in {main_loop_body(ledger, tx)} :
           /\ ledger' = out.ledger
           /\ log' = Append(log, [tx |-> tx, account |-> out.account, res |-> out.res])
  /\ UNCHANGED <<input, transactions, pc>>
  /\ UNCHANGED vars

\* The loop is over: print_ledger(ledger).
PrintLedger ==
  /\ pc = "loop"
  /\ Len(log) = Len(transactions)
  /\ pc' = "done"
  /\ UNCHANGED <<input, transactions, ledger, log>>
  /\ UNCHANGED vars

NextMain ==
  \/ Load
  \/ MainLoop
  \/ PrintLedger

SpecMain == InitMain /\ [][NextMain]_<<mvars, vars>>

\* One call account.process(tx) by a caller that gives every Deposit and
\* Withdrawal a transaction id no earlier Deposit or Withdrawal had.
CallUnique(tx) ==
  /\ tx.kind \in {"Deposit", "Withdrawal"} => tx.tx \notin used
  /\ \E out \in {process(Self, tx)} :
       /\ calls < MaxCalls
       /\ client_id' = out.self.client_id
       /\ available' = out.self.available
       /\ held' = out.self.held
       /\ total' = out.self.total
       /\ frozen' = out.self.frozen
       /\ records' = out.self.records
       /\ disputed' = out.self.disputed
       /\ last' = [tx |-> tx, res |-> out.res]
       /\ calls' = calls + 1
  /\ used' = IF tx.kind \in {"Deposit", "Withdrawal"} THEN used \cup {tx.tx} ELSE used
  /\ UNCHANGED mvars

UniqueDeposit    == \E tx \in Deposits : CallUnique(tx)
UniqueWithdrawal == \E tx \in Withdrawals : CallUnique(tx)
UniqueDispute    == \E tx \in Disputes : CallUnique(tx)
UniqueResolve    == \E tx \in Resolves : CallUnique(tx)
UniqueChargeback == \E tx \in Chargebacks : CallUnique(tx)

NextUniqueIds ==
  \/ UniqueDeposit
  \/ UniqueWithdrawal
  \/ UniqueDispute
  \/ UniqueResolve
  \/ UniqueChargeback

SpecUniqueIds == Init /\ [][NextUniqueIds]_vars

TypeOK ==
  /\ client_id \in ClientIds
  /\ frozen \in BOOLEAN
  /\ DOMAIN records \subseteq Txs
  /\ DOMAIN disputed \subseteq Txs
  /\ calls \in 0..MaxCalls

\* ------------------------------------------------------------ properties
InExactlyOne(t) == (t \in DOMAIN records) # (t \in DOMAIN disputed)

\* C1: in every reachable state total equals available + held (the sum
\* taken as the program takes it, in f64).
C1_TotalIsAvailablePlusHeld == total = FAdd(available, held)

\* C2: in every reachable state no transaction id is a key of both records
\* and disputed.
C2_NeverInBoth == DOMAIN records \cap DOMAIN disputed = {}

\* C3: once frozen is true, every process call, whatever its variant, id
\* and client id, returns AccountFrozen and leaves the account as it was.
C3_FrozenRejectsEverything ==
  [][frozen => (last'.res = AccountFrozen /\ UNCHANGED acct)]_vars

\* A mismatched-client Dispute has been rejected by a frozen account.
C3_Witness ==
  /\ frozen
  /\ last.res = AccountFrozen
  /\ last.tx.kind = "Dispute"
  /\ last.tx.client # client_id

\* C4: a process call that returns a failure leaves available, held, total,
\* frozen, records and disputed exactly as they were before the call.
C4_FailureChangesNothing ==
  [][last'.res # Ok => UNCHANGED acct]_vars

\* A Dispute of a recorded Deposit has failed on its balance check while
\* another transaction is under dispute.
C4_Witness ==
  /\ last.tx.kind = "Dispute"
  /\ last.res = InsufficientFunds
  /\ last.tx.tx \in DOMAIN records
  /\ DOMAIN disputed # {}

\* C5: after a successful Resolve(tx), tx is no longer a key of disputed and
\* is again a key of records, holding the transaction that was disputed, so
\* a later Dispute(tx) is not rejected with UnknownTransaction.
C5_ResolveReturnsToRecords ==
  [][(last'.tx.kind = "Resolve" /\ last'.res = Ok) =>
       LET t == last'.tx.tx
       IN  /\ t \notin DOMAIN disputed'
           /\ t \in DOMAIN records'
           /\ records'[t] = disputed[t]
           /\ dispute([Self EXCEPT !.records = records', !.disputed = disputed'],
                      t).res # UnknownTransaction]_vars

\* C6: from a non-frozen state, a successful Dispute(tx) of a recorded id
\* followed at once by Resolve(tx) gives back the balances, the record of
\* tx in records and the disputed map of before the Dispute.
C6_DisputeResolveRoundTrip ==
  ~frozen =>
    \A t \in DOMAIN records :
      LET d == process(Self, Dispute(client_id, t, 0))
          r == process(d.self, Resolve(client_id, t, 0))
      IN  d.res = Ok =>
            /\ r.self.available = available
            /\ r.self.held = held
            /\ r.self.total = total
            /\ t \in DOMAIN r.self.records
            /\ r.self.records[t] = records[t]
            /\ r.self.disputed = disputed

\* C7: from the successful Deposit or Withdrawal of id t until a successful
\* Chargeback of t, t is a key of exactly one of records and disputed: the
\* Deposit/Withdrawal establishes it and no other call ends it.
C7_ExactlyOneUntilChargeback ==
  [][\A t \in Txs :
       /\ (last'.tx.kind \in {"Deposit", "Withdrawal"} /\ last'.res = Ok
             /\ last'.tx.tx = t) => InExactlyOne(t)'
       /\ (InExactlyOne(t)
             /\ ~(last'.tx.kind = "Chargeback" /\ last'.res = Ok /\ last'.tx.tx = t))
            => InExactlyOne(t)']_vars

\* C8: a successful Chargeback(tx) takes the disputed amount off held and
\* off total, leaves available alone, freezes the account and removes tx
\* from disputed without putting it into records: tx is a key of neither
\* map then, and stays so.
C8_ChargebackRetiresTx ==
  [][/\ (last'.tx.kind = "Chargeback" /\ last'.res = Ok) =>
          LET t == last'.tx.tx
              A == disputed[t].amount
          IN  /\ held' = FSub(held, A)
              /\ total' = FSub(total, A)
              /\ available' = available
              /\ frozen'
              /\ t \notin DOMAIN disputed'
              /\ t \notin DOMAIN records'
     /\ frozen => (DOMAIN records' = DOMAIN records /\ DOMAIN disputed' = DOMAIN disputed)
    ]_vars

\* C9: from a non-frozen state, when a Deposit or Withdrawal, the Dispute of
\* its id and the Chargeback of its id succeed one after the other, the
\* balances after the Chargeback are those of before the Deposit/Withdrawal.
C9_ChargebackReversesOriginal ==
  ~frozen =>
    \A orig \in Deposits \cup Withdrawals :
      LET o == process(Self, orig)
          d == process(o.self, Dispute(orig.client, orig.tx, 0))
          c == process(d.self, Chargeback(orig.client, orig.tx, 0))
      IN  (o.res = Ok /\ d.res = Ok /\ c.res = Ok) =>
            /\ c.self.available = available
            /\ c.self.held = held
            /\ c.self.total = total

\* C10, as stated: a Dispute repeated right after its own success fails with
\* UnknownTransaction and changes nothing; and any Dispute of an id that is
\* a key of disputed but not of records fails with UnknownTransaction.
C10_AnyRedisputeIsUnknown ==
  [][/\ (last.tx.kind = "Dispute" /\ last.res = Ok /\ last'.tx = last.tx) =>
          (last'.res = UnknownTransaction /\ UNCHANGED acct)
     /\ (last'.tx.kind = "Dispute"
           /\ last'.tx.tx \in DOMAIN disputed \ DOMAIN records) =>
          last'.res = UnknownTransaction]_vars

\* C10, amended: a Dispute repeated right after its own success fails with
\* UnknownTransaction and changes nothing; and on a non-frozen account any
\* Dispute carrying the account's client id of an id that is a key of
\* disputed but not of records fails with UnknownTransaction and changes
\* nothing.
C10_RedisputeIsUnknown ==
  [][/\ (last.tx.kind = "Dispute" /\ last.res = Ok /\ last'.tx = last.tx) =>
          (last'.res = UnknownTransaction /\ UNCHANGED acct)
     /\ (~frozen /\ last'.tx.kind = "Dispute" /\ last'.tx.client = client_id
           /\ last'.tx.tx \in DOMAIN disputed \ DOMAIN records) =>
          (last'.res = UnknownTransaction /\ UNCHANGED acct)]_vars

\* A Dispute of an id under dispute has been rejected as unknown.
C10_Witness ==
  /\ ~frozen
  /\ last.tx.kind = "Dispute"
  /\ last.tx.client = client_id
  /\ last.res = UnknownTransaction
  /\ last.tx.tx \in DOMAIN disputed \ DOMAIN records

\* C11: on a non-frozen account a Deposit carrying the account's client id
\* always succeeds, adds its amount to available and to total, leaves held,
\* frozen and disputed alone, and leaves records as before except that its
\* id now maps to this Deposit.
C11_DepositCredits ==
  ~frozen =>
    \A tx \in Deposits :
      tx.client = client_id =>
        LET out == process(Self, tx)
        IN  /\ out.res = Ok
            /\ out.self.available = FAdd(available, tx.amount)
            /\ out.self.total = FAdd(total, tx.amount)
            /\ out.self.held = held
            /\ out.self.frozen = frozen
            /\ out.self.disputed = disputed
            /\ out.self.records = insert(records, tx.tx, tx)

\* A Deposit has been credited to an account that has a transaction under
\* dispute and another one on record.
C11_Witness ==
  /\ last.tx.kind = "Deposit"
  /\ last.res = Ok
  /\ DOMAIN disputed # {}
  /\ DOMAIN records \ {last.tx.tx} # {}
  /\ records[last.tx.tx] = last.tx

\* C12: on a non-frozen account a Withdrawal carrying the account's client
\* id fails with InsufficientFunds exactly when available < amount, and then
\* its id is not added to records; otherwise it succeeds, takes its amount
\* off available and off total, leaves held alone and records the
\* Withdrawal under its id.
C12_WithdrawalFailsIffAvailableShort ==
  ~frozen =>
    \A tx \in Withdrawals :
      tx.client = client_id =>
        LET out == process(Self, tx)
        IN  IF available < tx.amount
            THEN /\ out.res = InsufficientFunds
                 /\ out.self.records = records
            ELSE /\ out.res = Ok
                 /\ out.self.available = FSub(available, tx.amount)
                 /\ out.self.total = FSub(total, tx.amount)
                 /\ out.self.held = held
                 /\ out.self.records = insert(records, tx.tx, tx)

\* C13: on a non-frozen account, a Dispute (carrying the account's client
\* id) of an id that records maps to a Deposit of amount A fails with
\* InsufficientFunds exactly when available < A; otherwise it succeeds,
\* takes A off available, adds A to held, leaves total alone, removes the id
\* from records and puts the same Deposit into disputed under that id.
C13_DisputeOfDeposit ==
  ~frozen =>
    \A tx \in Disputes :
      (tx.client = client_id /\ tx.tx \in DOMAIN records
         /\ records[tx.tx].kind = "Deposit") =>
        LET A == records[tx.tx].amount
            out == process(Self, tx)
        IN  IF available < A
            THEN out.res = InsufficientFunds
            ELSE /\ out.res = Ok
                 /\ out.self.available = FSub(available, A)
                 /\ out.self.held = FAdd(held, A)
                 /\ out.self.total = total
                 /\ out.self.records = remove(records, tx.tx)
                 /\ out.self.disputed = insert(disputed, tx.tx, records[tx.tx])

\* A Deposit whose amount was all that was available has been disputed,
\* another transaction staying on record.
C13_Witness ==
  /\ last.tx.kind = "Dispute"
  /\ last.res = Ok
  /\ last.tx.tx \in DOMAIN disputed
  /\ disputed[last.tx.tx].kind = "Deposit"
  /\ available = 0
  /\ DOMAIN records # {}

\* C14: on a non-frozen account, a Dispute (carrying the account's client
\* id) of an id that records maps to a Withdrawal of amount A always
\* succeeds, adds A to held and to total, leaves available alone, removes the
\* id from records and puts the same Withdrawal into disputed under that id;
\* every other record is untouched.
C14_DisputeOfWithdrawal ==
  ~frozen =>
    \A tx \in Disputes :
      (tx.client = client_id /\ tx.tx \in DOMAIN records
         /\ records[tx.tx].kind = "Withdrawal") =>
        LET A == records[tx.tx].amount
            out == process(Self, tx)
        IN  /\ out.res = Ok
            /\ out.self.held = FAdd(held, A)
            /\ out.self.total = FAdd(total, A)
            /\ out.self.available = available
            /\ out.self.records = remove(records, tx.tx)
            /\ out.self.disputed = insert(disputed, tx.tx, records[tx.tx])

\* A Withdrawal has been disputed on an account with less available than
\* its amount, another transaction staying on record.
C14_Witness ==
  /\ last.tx.kind = "Dispute"
  /\ last.res = Ok
  /\ last.tx.tx \in DOMAIN disputed
  /\ disputed[last.tx.tx].kind = "Withdrawal"
  /\ available < disputed[last.tx.tx].amount
  /\ DOMAIN records # {}

\* What a successful Resolve does to the balances: for a disputed Deposit of
\* A, A goes from held to available and total stays; for a disputed
\* Withdrawal of A, A comes off held and off total and available stays.
ResolveEffect(tx) ==
  LET out == process(Self, tx)
      A == disputed[tx.tx].amount
  IN  (tx.kind = "Resolve" /\ out.res = Ok) =>
        /\ disputed[tx.tx].kind = "Deposit" =>
             /\ out.self.held = FSub(held, A)
             /\ out.self.available = FAdd(available, A)
             /\ out.self.total = total
        /\ disputed[tx.tx].kind = "Withdrawal" =>
             /\ out.self.held = FSub(held, A)
             /\ out.self.total = FSub(total, A)
             /\ out.self.available = available

\* C15, as stated: a Resolve or Chargeback (carrying the account's client id)
\* of an id that is not a key of disputed fails with UnknownTransaction, be
\* the id a key of records or not; a successful Resolve has ResolveEffect.
C15_UnknownWheneverNotDisputed ==
  \A tx \in Resolves \cup Chargebacks :
    tx.client = client_id =>
      /\ tx.tx \notin DOMAIN disputed =>
           process(Self, tx).res = UnknownTransaction
      /\ ResolveEffect(tx)

\* C15, amended: on a non-frozen account a Resolve or Chargeback (carrying
\* the account's client id) of an id that is not a key of disputed fails with
\* UnknownTransaction, be the id a key of records or not; a successful
\* Resolve has ResolveEffect.
C15_UnknownUnlessDisputed ==
  \A tx \in Resolves \cup Chargebacks :
    tx.client = client_id =>
      /\ (~frozen /\ tx.tx \notin DOMAIN disputed) =>
           process(Self, tx).res = UnknownTransaction
      /\ ResolveEffect(tx)

\* A Chargeback of an id that is on record but not under dispute has been
\* rejected as unknown, while another id is under dispute.
C15_Witness ==
  /\ ~frozen
  /\ last.tx.kind = "Chargeback"
  /\ last.tx.client = client_id
  /\ last.res = UnknownTransaction
  /\ last.tx.tx \in DOMAIN records \ DOMAIN disputed
  /\ DOMAIN disputed # {}

\* C16: on a non-frozen account, a transaction of any variant whose client
\* id differs from the account's fails with ClientMismatch and leaves the
\* account as it was (a mismatched Deposit is not recorded).
C16_ForeignClientRejected ==
  ~frozen =>
    \A tx \in Transaction :
      tx.client # client_id => process(Self, tx) = Done(Self, ClientMismatch)

\* A Deposit with a foreign client id has been rejected and is not on
\* record, while the account holds records and a dispute.
C16_Witness ==
  /\ ~frozen
  /\ last.tx.kind = "Deposit"
  /\ last.tx.client # client_id
  /\ last.res = ClientMismatch
  /\ last.tx.tx \notin DOMAIN records
  /\ DOMAIN records # {}
  /\ DOMAIN disputed # {}

\* C17: frozen is false in a new account, and a call leaves frozen true
\* exactly when it was true before or the call is a successful Chargeback:
\* false until the first successful Chargeback, true at it and ever after.
C17_FrozenIsLatch ==
  /\ ~frozen
  /\ [][frozen' = (frozen \/ (last'.tx.kind = "Chargeback" /\ last'.res = Ok))]_vars

\* A frozen account has stayed frozen over a later call.
C17_Witness ==
  /\ frozen
  /\ last.res = AccountFrozen
  /\ last.tx.kind = "Deposit"
  /\ last.tx.client = client_id

\* The transactions of the calls in l that returned Ok, in l's order.
Succeeded(l) ==
  LET ok == SelectSeq(l, LAMBDA e : e.res = Ok)
  IN  [k \in 1..Len(ok) |-> ok[k].tx]

\* The ledger main's loop makes of ledger l and the transactions txs.
RECURSIVE Replay(_, _)
Replay(l, txs) ==
  IF txs = <<>> THEN l ELSE Replay(main_loop_body(l, Head(txs)).ledger, Tail(txs))

\* Ledger l with a new Account for every client id of cs it has no Account for.
Opened(l, cs) ==
  [c \in DOMAIN l \cup cs |-> IF c \in DOMAIN l THEN l[c] ELSE new(c)]

\* The loop calls process on the loaded transactions one by one in their
\* order, each on the Account of the transaction's client id, and goes
\* through all of them before the ledger is printed.
EachOnceInOrder ==
  /\ Len(log) <= Len(transactions)
  /\ \A k \in 1..Len(log) :
       /\ log[k].tx = transactions[k]
       /\ log[k].account = transactions[k].client
  /\ pc = "done" => Len(log) = Len(transactions)

\* C18, as stated: EachOnceInOrder, and a failing call changes nothing: the
\* ledger is at any time, and so at the end, what the loop makes of the
\* transactions that succeeded so far, taken alone in their order.
C18_LedgerIsReplayOfSucceeded ==
  /\ EachOnceInOrder
  /\ ledger = Replay(Ledger_new, Succeeded(log))

\* C18, amended: EachOnceInOrder, and a failing call changes nothing but
\* that the Account of its client id is created when the ledger has none:
\* the ledger is at any time, and so at the end, what the loop makes of the
\* transactions that succeeded so far, taken alone in their order, plus a
\* new Account for every other client id a transaction was processed for.
C18_LedgerIsReplayPlusOpened ==
  /\ EachOnceInOrder
  /\ ledger = Opened(Replay(Ledger_new, Succeeded(log)),
                     {log[k].tx.client : k \in 1..Len(log)})

\* The loop has gone on after a failing call to a call that succeeded on the
\* same Account, and the ledger has been printed.
C18_Witness ==
  /\ pc = "done"
  /\ Len(log) = MaxRows
  /\ log[1].res = Ok
  /\ log[2].res # Ok
  /\ log[3].res = Ok
  /\ log[2].account = log[3].account
  /\ log[3].tx.kind = "Dispute"

\* C19: whatever transaction the loop processes next, every Account of the
\* ledger but the one of the transaction's client id stays as it is
\* (balances, frozen, records, disputed), and no Account is created for
\* another client id: an id two clients use names one record in each
\* Account, and freezing one client does not freeze another.
C19_AccountsAreIndependent ==
  pc = "loop" =>
    \A tx \in Transaction :
      LET after == main_loop_body(ledger, tx).ledger
      IN  /\ DOMAIN after \ {tx.client} = DOMAIN ledger \ {tx.client}
          /\ \A d \in DOMAIN ledger \ {tx.client} : after[d] = ledger[d]

\* The loop has disputed for one client an id that another client uses too:
\* the id is under dispute in the one Account and still on record, with the
\* other client's Deposit, in the other.
C19_Witness ==
  /\ pc = "loop"
  /\ Len(log) = 3
  /\ log[3].tx.kind = "Dispute"
  /\ log[3].res = Ok
  /\ \E d \in DOMAIN ledger \ {log[3].tx.client} :
       /\ log[3].tx.tx \in DOMAIN ledger[d].records
       /\ ledger[d].records[log[3].tx.tx].client = d
       /\ ledger[d].held = 0
       /\ ledger[log[3].tx.client].held > 0

\* C20: when every row deserializes, load_csv_transactions returns one
\* Transaction per record, in the records' order, of the variant the
\* record's type string names and with the record's client, tx and amount;
\* if a record has another type string the load returns an error, main
\* stops, and no transaction of the input reaches an Account.
C20_LoadMapsRecordsOrFails ==
  (pc # "load" /\ \A k \in 1..Len(input) : input[k] # Malformed) =>
    IF \A k \in 1..Len(input) : input[k].type \in TypeStrings
    THEN /\ pc # "panic"
         /\ Len(transactions) = Len(input)
         /\ \A k \in 1..Len(input) :
              LET r == input[k]
                  t == transactions[k]
              IN  /\ r.type = "deposit" => t.kind = "Deposit"
                  /\ r.type = "withdrawal" => t.kind = "Withdrawal"
                  /\ r.type = "dispute" => t.kind = "Dispute"
                  /\ r.type = "resolve" => t.kind = "Resolve"
                  /\ r.type = "chargeback" => t.kind = "Chargeback"
                  /\ t.client = r.client
                  /\ t.tx = r.tx
                  /\ t.amount = r.amount
    ELSE /\ pc = "panic"
         /\ load_csv_transactions(input).err = "Not a valid transaction type"
         /\ log = <<>>
         /\ ledger = Ledger_new

\* The load has failed on the unknown type string of the last record, and
\* the Deposits before it have reached no Account.
C20_Witness ==
  /\ pc = "panic"
  /\ Len(input) = MaxRows
  /\ \A k \in 1..(MaxRows - 1) : input[k].type = "deposit"
  /\ input[MaxRows].type \in OtherTypeStrings
  /\ ledger = Ledger_new
  /\ log = <<>>

\* C21: in every reachable state every value stored in records and in
\* disputed is a Deposit or a Withdrawal, so the fallback arms of dispute,
\* resolve and chargeback are not taken: dispute never returns the error of
\* its fallback arm, and a Resolve or Chargeback never finds another variant.
C21_OnlyDepositsAndWithdrawalsStored ==
  /\ \A t \in DOMAIN records : records[t].kind \in {"Deposit", "Withdrawal"}
  /\ \A t \in DOMAIN disputed : disputed[t].kind \in {"Deposit", "Withdrawal"}
  /\ last.res # InvalidReference
  /\ \A tx \in Disputes : process(Self, tx).res # InvalidReference

\* A Resolve has succeeded and is stored under its id in neither map, while
\* a transaction stays on record.
C21_Witness ==
  /\ last.tx.kind = "Resolve"
  /\ last.res = Ok
  /\ last.tx.tx \notin DOMAIN records \cup DOMAIN disputed
  /\ DOMAIN records # {}

\* Every amount a transaction can carry is non-negative.
AmountsNonNegative == \A a \in Amounts \cup IgnoredAmounts : a >= 0

\* C22: provided every amount is non-negative, in every reachable state
\* available >= 0 and held >= 0, total >= available and total >= held; so
\* the second check of withdrawal (total < amount) does not fail once
\* available >= amount.
C22_TotalCoversAvailableAndHeld ==
  AmountsNonNegative =>
    /\ available >= 0
    /\ held >= 0
    /\ total >= available
    /\ total >= held
    /\ ~frozen =>
         \A tx \in Withdrawals :
           (tx.client = client_id /\ available >= tx.amount) => total >= tx.amount

\* C23: provided every amount is non-negative, in every reachable non-frozen
\* state held and total are at least the amount of every transaction in
\* disputed, and a Resolve or Chargeback carrying the account's client id of
\* an id in disputed succeeds (no InsufficientHeldFunds, no
\* InsufficientTotalFunds).
C23_DisputedAlwaysSettles ==
  (AmountsNonNegative /\ ~frozen) =>
    /\ \A t \in DOMAIN disputed :
         held >= disputed[t].amount /\ total >= disputed[t].amount
    /\ \A tx \in Resolves \cup Chargebacks :
         (tx.client = client_id /\ tx.tx \in DOMAIN disputed) =>
           process(Self, tx).res = Ok

\* The sum, taken in f64, of the amounts of the transactions stored in m.
RECURSIVE SumOfAmounts(_)
SumOfAmounts(m) ==
  IF DOMAIN m = {} THEN 0
  ELSE LET t == CHOOSE t \in DOMAIN m : TRUE
       IN  FAdd(SumOfAmounts(remove(m, t)), m[t].amount)

\* C24: when every Deposit and Withdrawal passed to the account carries an id
\* no earlier Deposit or Withdrawal carried (SpecUniqueIds), in every
\* reachable state held equals the sum of the amounts of the transactions
\* stored in disputed, and so held is 0 exactly when no transaction of
\* non-zero amount is under dispute.
C24_HeldIsSumOfDisputed ==
  /\ held = SumOfAmounts(disputed)
  /\ (held = 0) <=> (\A t \in DOMAIN disputed : disputed[t].amount = 0)

====
